---- MODULE Spec2Model ----
(***************************************************************************)
(* Model of odl/solvers/smooth/newton.py (newtons_method, bfgs_method,     *)
(* broydens_method, _bfgs_multiply) and odl/operator/pspace_ops.py         *)
(* (ProductSpaceOperator, ComponentProjection, ComponentProjectionAdjoint).*)
(*                                                                         *)
(* The solvers run on the one-dimensional space Rn(1); its elements and    *)
(* the scalars are exact rationals <<numerator, denominator>>.             *)
(***************************************************************************)
EXTENDS Integers, Sequences, FiniteSets, TLC

VARIABLES
    args,       \* the arguments of the solver call
    pc,         \* position of the solver call
    x,          \* the point, updated in place
    grad_x,     \* gradient at the current point (bfgs, broyden)
    ss,         \* bfgs: list named ss (holds the gradient differences)
    ys,         \* bfgs: list named ys (holds the displacements)
    hess,       \* broyden: approximate operator, a scalar on Rn(1)
    k,          \* number of loop iterations started
    obs,        \* what the caller's collaborators have seen (calls, logs)
    pso,        \* the ProductSpaceOperator session (pspace_ops.py)
    proj        \* the ComponentProjection session (pspace_ops.py)

vars == <<args, pc, x, grad_x, ss, ys, hess, k, obs, pso, proj>>

\* an optional argument: None, or Some(v)
None == <<>>
Some(v) == <<v>>

-----------------------------------------------------------------------------
(* Bounds of the model *)

MaxIter == 4
MaxCor == 2

-----------------------------------------------------------------------------
(* Exact rational arithmetic: the scalars and the elements of Rn(1) *)

Abs(n) == IF n < 0 THEN -n ELSE n

RECURSIVE GCD(_, _)
GCD(a, b) == IF b = 0 THEN a ELSE GCD(b, a % b)

Norm(n, d) ==
    LET s == IF d < 0 THEN -1 ELSE 1
        g == GCD(Abs(n), Abs(d))
    IN  <<(s * n) \div g, (s * d) \div g>>

Rat(n) == <<n, 1>>
Zero == Rat(0)
One == Rat(1)
RAdd(p, q) == Norm(p[1] * q[2] + q[1] * p[2], p[2] * q[2])
RNeg(p) == <<-p[1], p[2]>>
RSub(p, q) == RAdd(p, RNeg(q))
RMul(p, q) == Norm(p[1] * q[1], p[2] * q[2])
RInv(p) == Norm(p[2], p[1])
RAbs(p) == <<Abs(p[1]), p[2]>>
RLt(p, q) == p[1] * q[2] < q[1] * p[2]
RLe(p, q) == p[1] * q[2] <= q[1] * p[2]

\* element.inner(other) on Rn(1)
Inner(u, v) == RMul(u, v)
\* element.lincomb(a, u, b, v) = a*u + b*v
Lincomb(a, u, b, v) == RAdd(RMul(a, u), RMul(b, v))

-----------------------------------------------------------------------------
(* The caller's inputs *)

\* functionals f on Rn(1) with gradient a*x + b
Functionals == {[a |-> 1, b |-> 0], [a |-> 2, b |-> -2], [a |-> 0, b |-> 1]}

\* f.gradient evaluated in a point
Gradient(f, v) == RAdd(RMul(Rat(f.a), v), Rat(f.b))

\* f.gradient.derivative(point): the Hessian as an operator (a scalar)
Derivative(f, v) == Rat(f.a)

\* starting points: elements of the gradient's domain "X", and one of
\* another space
StartPoints ==
    {[space |-> "X", v |-> Rat(n)] : n \in {0, 1, 2}}
        \cup {[space |-> "Other", v |-> Rat(1)]}

Tols == {Zero, One, <<1, 16>>}
Steps == {One, <<1, 2>>}
MaxCors == {None} \cup {Some(n) : n \in -1 .. MaxCor}
Impls == {"first", "second", "third"}
HessInvEstimates == {None, Some(2)}
CgIters == {None, Some(0)}

\* nothing observed yet
NoObs ==
    [cb |-> <<>>, upd |-> <<>>, nls |-> 0, ngrad |-> 0, nderiv |-> 0,
     appended |-> <<>>, dd |-> None, xin |-> Zero, nlsin |-> 0,
     exit |-> "none"]


\* ConstantLineSearch(step)(x, direction, dir_derivative)
LineSearch(step, point, direction, dir_derivative) == step

\* conjugate_gradient(op, x, rhs, niter) started from x = 0 on Rn(1):
\* with no iterations, or <p, op(p)> = 0, x is left as it is
ConjugateGradient(h, rhs, niter) ==
    IF niter = 0 \/ Inner(rhs, RMul(h, rhs)) = Zero
    THEN Zero
    ELSE RMul(rhs, RInv(h))

-----------------------------------------------------------------------------
(* _bfgs_multiply(s, y, x, hessinv_estimate) *)

\* the backward loop, for i in reversed(range(len(s))): position i, the
\* rhos and alphas computed so far for the positions above i
RECURSIVE BfgsBackward(_, _, _, _, _, _)
BfgsBackward(s, y, r, i, rhos, alphas) ==
    IF i = 0
    THEN [err |-> FALSE, r |-> r, rhos |-> rhos, alphas |-> alphas]
    ELSE IF Inner(y[i], s[i]) = Zero
    THEN [err |-> TRUE, r |-> r, rhos |-> rhos, alphas |-> alphas]
    ELSE LET rho == RInv(Inner(y[i], s[i]))
             alpha == RMul(rho, Inner(s[i], r))
         IN  BfgsBackward(s, y, Lincomb(One, r, RNeg(alpha), y[i]), i - 1,
                          <<rho>> \o rhos, <<alpha>> \o alphas)

\* the forward loop, for i in range(len(s))
RECURSIVE BfgsForward(_, _, _, _, _, _)
BfgsForward(s, y, r, i, rhos, alphas) ==
    IF i > Len(s)
    THEN r
    ELSE LET beta == RMul(rhos[i], Inner(y[i], r))
         IN  BfgsForward(s, y, Lincomb(One, r, RSub(alphas[i], beta), s[i]),
                         i + 1, rhos, alphas)

\* the result: err when 1.0 / y[i].inner(s[i]) divides by zero
BfgsMultiply(s, y, v, hessinv_estimate) ==
    LET back == BfgsBackward(s, y, v, Len(s), <<>>, <<>>)
        r1 == IF hessinv_estimate = None
              THEN back.r
              ELSE RMul(Rat(hessinv_estimate[1]), back.r)
    IN  IF back.err
        THEN [err |-> TRUE, r |-> Zero]
        ELSE [err |-> FALSE,
              r |-> BfgsForward(s, y, r1, 1, back.rhos, back.alphas)]

-----------------------------------------------------------------------------
(* ProductSpaceOperator: the block matrix and its spaces *)

MaxVal == 1

\* component spaces; an element of a component space is a number
Spaces == {"r1", "r2"}
Vals == 0 .. MaxVal

\* a slot of `domains` / `ranges` that is still None
NoSpace == "None"

\* the entries of the array `operators`: 0 or None (the implicit zero
\* operator), an object that is no Operator, or an Operator
ZeroEntry ==
    [kind |-> "zero", domain |-> NoSpace, range |-> NoSpace,
     is_linear |-> FALSE]
ObjectEntry ==
    [kind |-> "object", domain |-> NoSpace, range |-> NoSpace,
     is_linear |-> FALSE]
Operators ==
    {[kind |-> "op", domain |-> d, range |-> r, is_linear |-> l] :
        d \in Spaces, r \in Spaces, l \in BOOLEAN}
Entries == {ZeroEntry, ObjectEntry} \cup Operators

\* the shapes <<rows, columns>> of the arrays passed
Shapes == {<<1, 2>>, <<2, 1>>, <<2, 2>>}

\* the arguments dom and ran: None, a space that is no ProductSpace, or a
\* ProductSpace of component spaces
NoneArg == [kind |-> "None", spaces |-> <<>>]
SpaceArgs ==
    {NoneArg,
     [kind |-> "space", spaces |-> <<"r1">>],
     [kind |-> "pspace", spaces |-> <<"r1", "r2">>],
     [kind |-> "pspace", spaces |-> <<"r2">>]}

\* isinstance(op, Operator)
IsOperator(e) == e.kind = "op"

\* evaluation of a sub-operator in a point: linear ones act as the
\* identity, the others as a translation
OpEval(op, v) == IF op.is_linear THEN v ELSE v + 1

\* sp.sparse.coo_matrix(operators): the nonzero entries as (row, col, data)
\* triples in row-major order (rows and columns counted from 1 here)
RECURSIVE CooFrom(_, _, _, _)
CooFrom(operators, shape, i, j) ==
    IF i > shape[1] THEN <<>>
    ELSE IF j > shape[2] THEN CooFrom(operators, shape, i + 1, 1)
    ELSE (IF operators[<<i, j>>].kind = "zero"
          THEN <<>>
          ELSE <<[row |-> i, col |-> j, data |-> operators[<<i, j>>]]>>)
         \o CooFrom(operators, shape, i, j + 1)

Coo(operators, shape) == CooFrom(operators, shape, 1, 1)

NoObject ==
    [ops |-> <<>>, domain |-> <<>>, range |-> <<>>, is_linear |-> FALSE]

Raise(type, what, index, got) ==
    [status |-> type, what |-> what, index |-> index, got |-> got,
     domains |-> <<>>, ranges |-> <<>>, self |-> NoObject]

NeverInconsistent(known, space) == FALSE

\* `domains[col] is None ... elif domains[col] != op.domain`
Inconsistent(known, space) == known # NoSpace /\ known # space

\* the loop over the triples: `domains` and `ranges` are bound only when
\* dom, respectively ran, is None
RECURSIVE InferLoop(_, _, _, _, _, _)
InferLoop(triples, i, domains, ranges, domBound, ranBound) ==
    IF i > Len(triples)
    THEN [status |-> "ok", what |-> "", index |-> 0, got |-> <<>>,
          domains |-> domains, ranges |-> ranges, self |-> NoObject]
    ELSE LET row == triples[i].row
             col == triples[i].col
             op == triples[i].data
         IN  IF ~domBound
             THEN Raise("NameError", "domains", 0, <<>>)
             ELSE IF Inconsistent(domains[col], op.domain)
             THEN Raise("ValueError", "Column", col,
                        <<domains[col], op.domain>>)
             ELSE IF ~ranBound
             THEN Raise("NameError", "ranges", 0, <<>>)
             ELSE IF Inconsistent(ranges[row], op.range)
             THEN Raise("ValueError", "Row", row,
                        <<ranges[row], op.range>>)
             ELSE InferLoop(triples, i + 1,
                            [domains EXCEPT ![col] = op.domain],
                            [ranges EXCEPT ![row] = op.range],
                            domBound, ranBound)

NeverEmpty(slots) == {}

\* the slots still None after the loop
EmptySlots(slots) == {i \in 1 .. Len(slots) : slots[i] = NoSpace}

Min(S) == CHOOSE m \in S : \A n \in S : m <= n

SomeLinear(triples) ==
    \E i \in 1 .. Len(triples) : triples[i].data.is_linear

\* `all(op.is_linear for op in self.ops.data)`
AllLinear(triples) ==
    \A i \in 1 .. Len(triples) : triples[i].data.is_linear

(* ProductSpaceOperator.__init__(operators, dom, ran) *)
PsoInit(operators, shape, dom, ran) ==
    LET triples == Coo(operators, shape)
        loop == InferLoop(triples, 1,
                          [c \in 1 .. shape[2] |-> NoSpace],
                          [r \in 1 .. shape[1] |-> NoSpace],
                          dom.kind = "None", ran.kind = "None")
        emptyCols == EmptySlots(loop.domains)
        emptyRows == EmptySlots(loop.ranges)
    IN  IF dom.kind = "space"
        THEN Raise("TypeError", "dom", 0, <<>>)
        ELSE IF ran.kind = "space"
        THEN Raise("TypeError", "ran", 0, <<>>)
        ELSE IF \E i \in 1 .. Len(triples) : ~IsOperator(triples[i].data)
        THEN Raise("TypeError", "operators", 0, <<>>)
        ELSE IF loop.status # "ok"
        THEN loop
        ELSE IF dom.kind = "None" /\ emptyCols # {}
        THEN Raise("ValueError", "ColEmpty", Min(emptyCols), <<>>)
        ELSE IF ran.kind = "None" /\ emptyRows # {}
        THEN Raise("ValueError", "RowEmpty", Min(emptyRows), <<>>)
        ELSE [loop EXCEPT
                 !.self = [ops |-> triples,
                           domain |-> IF dom.kind = "None"
                                      THEN loop.domains ELSE dom.spaces,
                           range |-> IF ran.kind = "None"
                                     THEN loop.ranges ELSE ran.spaces,
                           is_linear |-> AllLinear(triples)]]

\* the rows that no stored triple names
UnevaluatedRows(self) ==
    {i \in 1 .. Len(self.range) :
        \A n \in 1 .. Len(self.ops) : self.ops[n].row # i}

RECURSIVE ApplyLoopAccumulate(_, _, _, _, _)
ApplyLoopAccumulate(self, v, out, n, has_evaluated_row) ==
    IF n > Len(self.ops)
    THEN out
    ELSE ApplyLoopAccumulate(
             self, v,
             [out EXCEPT ![self.ops[n].row] =
                             @ + OpEval(self.ops[n].data, v[self.ops[n].col])],
             n + 1, has_evaluated_row \cup {self.ops[n].row})

\* the loop of _apply over the triples, from triple n on
RECURSIVE ApplyLoop(_, _, _, _, _)
ApplyLoop(self, v, out, n, has_evaluated_row) ==
    IF n > Len(self.ops)
    THEN out
    ELSE LET i == self.ops[n].row
             j == self.ops[n].col
             op == self.ops[n].data
         IN  ApplyLoop(self, v,
                       [out EXCEPT ![i] = IF i \in has_evaluated_row
                                          THEN @ + OpEval(op, v[j])
                                          ELSE OpEval(op, v[j])],
                       n + 1, has_evaluated_row \cup {i})

KeepUnevaluated(self, out) == out

\* `for i, evaluated in enumerate(has_evaluated_row): ... set_zero()`
ZeroUnevaluated(self, out) ==
    [i \in 1 .. Len(out) |->
        IF i \in UnevaluatedRows(self) THEN 0 ELSE out[i]]

\* ProductSpaceOperator._apply(x, out): the content of out afterwards
PsoApply(self, v, out) ==
    ZeroUnevaluated(self, ApplyLoop(self, v, out, 1, {}))

\* the loop of _call over the triples, from triple n on
RECURSIVE CallLoop(_, _, _, _)
CallLoop(self, v, out, n) ==
    IF n > Len(self.ops)
    THEN out
    ELSE LET i == self.ops[n].row
             j == self.ops[n].col
             op == self.ops[n].data
         IN  CallLoop(self, v, [out EXCEPT ![i] = @ + OpEval(op, v[j])],
                      n + 1)

\* ProductSpaceOperator._call(x)
PsoCall(self, v) ==
    CallLoop(self, v, [i \in 1 .. Len(self.range) |-> 0], 1)

\* the elements of a product space
Elements(spaces) == [1 .. Len(spaces) -> Vals]

NoPso ==
    [pc |-> "idle", operators |-> <<>>, shape |-> <<0, 0>>,
     dom |-> NoneArg, ran |-> NoneArg, res |-> Raise("", "", 0, <<>>),
     x |-> <<>>, out0 |-> <<>>, out |-> <<>>]

Matrices(shape) == [(1 .. shape[1]) \X (1 .. shape[2]) -> Entries]

\* the calls ProductSpaceOperator(operators, dom, ran) made
PsoInputs(s) ==
    \E sh \in Shapes, d \in SpaceArgs, r \in SpaceArgs :
        \E m \in Matrices(sh) :
            s = [NoPso EXCEPT !.pc = "start", !.operators = m, !.shape = sh,
                              !.dom = d, !.ran = r]

PsoIdle ==
    /\ args = [solver |-> "none"]
    /\ pc = "idle"
    /\ x = Zero
    /\ grad_x = Zero
    /\ ss = <<>>
    /\ ys = <<>>
    /\ hess = One
    /\ k = 0
    /\ obs = NoObs

SolverUnchanged == UNCHANGED <<args, pc, x, grad_x, ss, ys, hess, k, obs>>

(* ProductSpaceOperator(operators, dom, ran) *)
Construct ==
    /\ pso.pc = "start"
    /\ LET res == PsoInit(pso.operators, pso.shape, pso.dom, pso.ran)
       IN  pso' = [pso EXCEPT !.res = res,
                              !.pc = IF res.status = "ok"
                                     THEN "constructed" ELSE res.status]
    /\ UNCHANGED proj
    /\ SolverUnchanged

(* op._apply(x, out) on the constructed operator *)
Apply ==
    /\ pso.pc = "constructed"
    /\ \E v \in Elements(pso.res.self.domain),
          out \in Elements(pso.res.self.range) :
          pso' = [pso EXCEPT !.pc = "applied", !.x = v, !.out0 = out,
                             !.out = PsoApply(pso.res.self, v, out)]
    /\ UNCHANGED proj
    /\ SolverUnchanged

(* op._call(x) on the constructed operator *)
Call ==
    /\ pso.pc = "constructed"
    /\ \E v \in Elements(pso.res.self.domain) :
          pso' = [pso EXCEPT !.pc = "called", !.x = v,
                             !.out = PsoCall(pso.res.self, v)]
    /\ UNCHANGED proj
    /\ SolverUnchanged

-----------------------------------------------------------------------------
(* ComponentProjection and ComponentProjectionAdjoint *)

MaxSize == 2

\* the product space with n components
PSpace(n) == [i \in 1 .. n |-> IF i % 2 = 1 THEN "r1" ELSE "r2"]

\* the indices into a product space of n components: an integer (negative
\* ones count from the end), a slice start:stop, a list of integers
Indices(n) ==
    {[kind |-> "int", items |-> <<i>>] : i \in -n .. n - 1}
    \cup {[kind |-> "slice", items |-> <<a, b>>] :
             a \in 0 .. n - 1, b \in 1 .. n}
    \cup {[kind |-> "list", items |-> l] :
             l \in UNION {[1 .. m -> 0 .. n - 1] : m \in {1, 2}}}

\* the place (counted from 1) of Python's index i in a sequence of length n
PyPos(i, n) == (IF i < 0 THEN i + n ELSE i) + 1

\* the places an index selects, in order
Positions(index, n) ==
    CASE index.kind = "int" -> <<PyPos(index.items[1], n)>>
      [] index.kind = "slice" ->
            [m \in 1 .. (IF index.items[2] > index.items[1]
                         THEN index.items[2] - index.items[1] ELSE 0)
                |-> index.items[1] + m]
      [] OTHER -> [m \in 1 .. Len(index.items) |-> PyPos(index.items[m], n)]

\* x[index]: one component for an integer, else the selected components
GetItem(v, index) ==
    LET P == Positions(index, Len(v))
    IN  IF index.kind = "int" THEN v[P[1]]
        ELSE [m \in 1 .. Len(P) |-> v[P[m]]]

\* out[index] = v, assigned component by component, in order
RECURSIVE SetParts(_, _, _, _)
SetParts(out, P, v, m) ==
    IF m > Len(P) THEN out
    ELSE SetParts([out EXCEPT ![P[m]] = v[m]], P, v, m + 1)

SetItem(out, index, v) ==
    LET P == Positions(index, Len(out))
    IN  IF index.kind = "int" THEN [out EXCEPT ![P[1]] = v]
        ELSE SetParts(out, P, v, 1)

\* out.set_zero()
SetZero(out) == [i \in 1 .. Len(out) |-> 0]

\* the elements of space[index]
SubElements(space, index) ==
    IF index.kind = "int" THEN Vals
    ELSE [1 .. Len(Positions(index, Len(space))) -> Vals]

ProjApplyReversed(index, v, out) ==
    [x |-> SetItem(v, index, out), out |-> out]

\* ComponentProjection._apply(x, out): `out.assign(x[self.index])`
ProjApply(index, v, out) == [x |-> v, out |-> GetItem(v, index)]

\* ComponentProjection._call(x): `x[self.index].copy()`
ProjCall(index, v) == [x |-> v, out |-> GetItem(v, index)]

AdjApplyNoZero(index, v, out) == SetItem(out, index, v)

\* ComponentProjectionAdjoint._apply(x, out)
AdjApply(index, v, out) == SetItem(SetZero(out), index, v)

\* ComponentProjectionAdjoint._call(x), range the space of n components
AdjCall(index, v, n) == SetItem([i \in 1 .. n |-> 0], index, v)

NoProj ==
    [pc |-> "idle", space |-> <<>>, index |-> [kind |-> "int", items |-> <<0>>],
     x0 |-> <<>>, x |-> <<>>, y0 |-> <<>>, y |-> <<>>, z0 |-> <<>>,
     z |-> <<>>]

\* the product spaces, indices and elements the projections are used with
ProjInputs(s) ==
    \E n \in 1 .. MaxSize :
        \E ix \in Indices(n), v \in Elements(PSpace(n)) :
            s = [NoProj EXCEPT !.pc = "start", !.space = PSpace(n),
                               !.index = ix, !.x0 = v, !.x = v]

(* y = ComponentProjection(space, index)(x), out of place *)
Project ==
    /\ proj.pc = "start"
    /\ LET r == ProjCall(proj.index, proj.x)
       IN  proj' = [proj EXCEPT !.pc = "projected", !.x = r.x, !.y = r.out]
    /\ UNCHANGED pso
    /\ SolverUnchanged

(* ComponentProjection(space, index)._apply(x, y), y holding anything *)
ProjectInPlace ==
    /\ proj.pc = "start"
    /\ \E out \in SubElements(proj.space, proj.index) :
          LET r == ProjApply(proj.index, proj.x, out)
          IN  proj' = [proj EXCEPT !.pc = "projected", !.x = r.x,
                                   !.y0 = <<out>>, !.y = r.out]
    /\ UNCHANGED pso
    /\ SolverUnchanged

(* z = ComponentProjectionAdjoint(space, index)(y), out of place *)
Inject ==
    /\ proj.pc = "projected"
    /\ proj' = [proj EXCEPT
                   !.pc = "injected",
                   !.z = AdjCall(proj.index, proj.y, Len(proj.space))]
    /\ UNCHANGED pso
    /\ SolverUnchanged

(* ComponentProjectionAdjoint(space, index)._apply(y, z), z holding anything *)
InjectInPlace ==
    /\ proj.pc = "projected"
    /\ \E out \in Elements(proj.space) :
          proj' = [proj EXCEPT !.pc = "injected", !.z0 = out,
                               !.z = AdjApply(proj.index, proj.y, out)]
    /\ UNCHANGED pso
    /\ SolverUnchanged

PsoInitial == PsoIdle /\ PsoInputs(pso) /\ proj = NoProj
PsoNext == Construct \/ Apply \/ Call
PsoSpec == PsoInitial /\ [][PsoNext]_vars

ProjInitial == PsoIdle /\ pso = NoPso /\ ProjInputs(proj)
ProjNext == Project \/ ProjectInPlace \/ Inject \/ InjectInPlace
ProjSpec == ProjInitial /\ [][ProjNext]_vars

-----------------------------------------------------------------------------
(* The solver calls *)

\* the calls of the three solvers made
SolverArgs(a) ==
    \E f \in Functionals, p \in StartPoints, st \in Steps,
       m \in 0 .. MaxIter, t \in Tols, cb \in BOOLEAN :
        LET base == [solver |-> "newton", f |-> f, x |-> p, step |-> st,
                     maxiter |-> m, tol |-> t, cg_iter |-> None,
                     maxcor |-> None, hessinv_estimate |-> None,
                     impl |-> "first", callback |-> cb]
        IN  \/ \E c \in CgIters : a = [base EXCEPT !.cg_iter = c]
            \/ \E mc \in MaxCors, h \in HessInvEstimates :
                  a = [base EXCEPT !.solver = "bfgs", !.maxcor = mc,
                                   !.hessinv_estimate = h]
            \/ \E i \in Impls :
                  a = [base EXCEPT !.solver = "broyden", !.impl = i]

Init ==
    /\ SolverArgs(args)
    /\ pc = "start"
    /\ x = args.x.v
    /\ grad_x = Zero
    /\ ss = <<>>
    /\ ys = <<>>
    /\ hess = One
    /\ k = 0
    /\ obs = NoObs
    /\ pso = NoPso
    /\ proj = NoProj

InDomainUnchecked(p) == TRUE

\* `x not in grad.domain`
InDomain(p) == p.space = "X"

CallbackStale(o, v) ==
    IF args.callback THEN [o EXCEPT !.cb = Append(@, x)] ELSE o

\* callback(x), when a callback is supplied
Callback(o, v) == IF args.callback THEN [o EXCEPT !.cb = Append(@, v)] ELSE o

\* the solver returns from inside the loop
Return(o, why) == [o EXCEPT !.exit = why]

(* newtons_method: the entry checks *)
NewtonEntry ==
    /\ pc = "start"
    /\ args.solver = "newton"
    /\ pc' = IF InDomain(args.x) THEN "loop" ELSE "TypeError"
    /\ UNCHANGED <<args, x, grad_x, ss, ys, hess, k, obs, pso, proj>>

\* `if np.abs(dir_deriv) <= tol` of newtons_method
NewtonConverged(dir_deriv, tol) == RLe(RAbs(dir_deriv), tol)

(* newtons_method: one pass of the loop body *)
NewtonIter ==
    /\ pc = "loop"
    /\ args.solver = "newton"
    /\ k < args.maxiter
    /\ LET cg_iter == IF args.cg_iter = None THEN 1 ELSE args.cg_iter[1]
           hessian == Derivative(args.f, x)
           deriv_in_point == Gradient(args.f, x)
           search_direction ==
               ConjugateGradient(hessian, RNeg(deriv_in_point), cg_iter)
           dir_deriv == Inner(search_direction, deriv_in_point)
           o1 == [obs EXCEPT !.nderiv = @ + 1, !.ngrad = @ + 1,
                             !.dd = Some(dir_deriv), !.xin = x,
                             !.nlsin = obs.nls]
           step_length ==
               LineSearch(args.step, x, search_direction, dir_deriv)
           xn == RAdd(x, RMul(step_length, search_direction))
           o2 == [o1 EXCEPT !.nls = @ + 1, !.upd = Append(@, xn)]
       IN  IF NewtonConverged(dir_deriv, args.tol)
           THEN /\ pc' = "done"
                /\ obs' = Return(o1, "dir_deriv")
                /\ x' = x
           ELSE /\ pc' = "loop"
                /\ x' = xn
                /\ obs' = Callback(o2, xn)
    /\ k' = k + 1
    /\ UNCHANGED <<args, grad_x, ss, ys, hess, pso, proj>>

\* `if np.abs(dir_deriv) < tol` of bfgs_method
BfgsConverged(dir_deriv, tol) == RLt(RAbs(dir_deriv), tol)

\* `if np.abs(y_inner_s) < tol` of bfgs_method
CurvatureNeverGuarded(y_inner_s, tol) == FALSE

BfgsCurvatureGuard(y_inner_s, tol) == RLt(RAbs(y_inner_s), tol)

\* the Python slice lst[-n:]: it starts at len - n (not below 0) when
\* -n < 0, and at -n (not above len) otherwise
TailSlice(lst, n) ==
    LET start == IF -n < 0
                 THEN (IF Len(lst) - n < 0 THEN 0 ELSE Len(lst) - n)
                 ELSE (IF -n > Len(lst) THEN Len(lst) ELSE -n)
    IN  SubSeq(lst, start + 1, Len(lst))

\* `if maxcor is not None: ss = ss[-maxcor:]`
Truncate(lst, maxcor) ==
    IF maxcor = None THEN lst ELSE TailSlice(lst, maxcor[1])

(* bfgs_method: the entry checks, the empty lists, the first gradient *)
BfgsEntry ==
    /\ pc = "start"
    /\ args.solver = "bfgs"
    /\ IF InDomain(args.x)
       THEN /\ pc' = "loop"
            /\ ss' = <<>>
            /\ ys' = <<>>
            /\ grad_x' = Gradient(args.f, x)
            /\ obs' = [obs EXCEPT !.ngrad = @ + 1]
       ELSE /\ pc' = "TypeError"
            /\ UNCHANGED <<ss, ys, grad_x, obs>>
    /\ UNCHANGED <<args, x, hess, k, pso, proj>>

(* bfgs_method: one pass of the loop body *)
BfgsIter ==
    /\ pc = "loop"
    /\ args.solver = "bfgs"
    /\ k < args.maxiter
    /\ LET m == BfgsMultiply(ys, ss, grad_x, args.hessinv_estimate)
           search_dir == RNeg(m.r)
           dir_deriv == Inner(search_dir, grad_x)
           o1 == [obs EXCEPT !.dd = Some(dir_deriv), !.xin = x,
                             !.nlsin = obs.nls]
           step == LineSearch(args.step, x, search_dir, dir_deriv)
           x_update == RMul(search_dir, step)
           xn == RAdd(x, x_update)
           grad_new == Gradient(args.f, xn)
           grad_diff == Lincomb(Rat(-1), grad_x, One, grad_new)
           y_inner_s == Inner(grad_diff, x_update)
           o2 == [o1 EXCEPT !.nls = @ + 1, !.upd = Append(@, xn),
                            !.ngrad = @ + 1]
           o3 == [o2 EXCEPT
                     !.appended = Append(@, <<grad_diff, x_update>>)]
       IN  IF m.err
           THEN /\ pc' = "ZeroDivisionError"
                /\ obs' = [obs EXCEPT !.dd = None, !.xin = x,
                                      !.nlsin = obs.nls,
                                      !.exit = "zero_curvature"]
                /\ UNCHANGED <<x, grad_x, ss, ys>>
           ELSE IF BfgsConverged(dir_deriv, args.tol)
           THEN /\ pc' = "done"
                /\ obs' = Return(o1, "dir_deriv")
                /\ UNCHANGED <<x, grad_x, ss, ys>>
           ELSE IF BfgsCurvatureGuard(y_inner_s, args.tol)
           THEN /\ pc' = "done"
                /\ x' = xn
                /\ grad_x' = grad_new
                /\ obs' = Return(o2, "curvature")
                /\ UNCHANGED <<ss, ys>>
           ELSE /\ pc' = "loop"
                /\ x' = xn
                /\ grad_x' = grad_new
                /\ ss' = Truncate(Append(ss, grad_diff), args.maxcor)
                /\ ys' = Truncate(Append(ys, x_update), args.maxcor)
                /\ obs' = Callback(o3, xn)
    /\ k' = k + 1
    /\ UNCHANGED <<args, hess, pso, proj>>

\* `if np.abs(dir_deriv) < tol` of broydens_method
BroydenConverged(dir_deriv, tol) == RLt(RAbs(dir_deriv), tol)

AnyImplUpdates(impl) == TRUE

\* `if impl == 'first': ... elif impl == 'second': ...`: the values of impl
\* for which the operator is updated
BroydenUpdates(impl) == impl \in {"first", "second"}

\* `if np.abs(divisor) < tol` of broydens_method
BroydenDivisorGuard(divisor, tol) == RLt(RAbs(divisor), tol)

(* broydens_method: the entry checks, the identity, the first gradient *)
BroydenEntry ==
    /\ pc = "start"
    /\ args.solver = "broyden"
    /\ IF InDomain(args.x)
       THEN /\ pc' = "loop"
            /\ hess' = One
            /\ grad_x' = Gradient(args.f, x)
            /\ obs' = [obs EXCEPT !.ngrad = @ + 1]
       ELSE /\ pc' = "TypeError"
            /\ UNCHANGED <<hess, grad_x, obs>>
    /\ UNCHANGED <<args, x, ss, ys, k, pso, proj>>

(* broydens_method: one pass of the loop body *)
BroydenIter ==
    /\ pc = "loop"
    /\ args.solver = "broyden"
    /\ k < args.maxiter
    /\ LET search_dir == RNeg(RMul(hess, grad_x))
           dir_deriv == Inner(search_dir, grad_x)
           o1 == [obs EXCEPT !.dd = Some(dir_deriv), !.xin = x,
                             !.nlsin = obs.nls]
           step == LineSearch(args.step, x, search_dir, dir_deriv)
           delta_x == RMul(step, search_dir)
           xn == RAdd(x, delta_x)
           grad_new == Gradient(args.f, xn)
           delta_grad == RSub(grad_new, grad_x)
           v == RMul(hess, delta_grad)
           o2 == [o1 EXCEPT !.nls = @ + 1, !.upd = Append(@, xn),
                            !.ngrad = @ + 1]
           divisor == IF args.impl = "first"
                      THEN Inner(delta_x, v)
                      ELSE Inner(delta_grad, delta_grad)
           u == RMul(RSub(search_dir, v), RInv(divisor))
           hess_new == IF args.impl = "first"
                       THEN RMul(RAdd(One, RMul(u, delta_x)), hess)
                       ELSE RAdd(hess, RMul(u, delta_grad))
       IN  IF BroydenConverged(dir_deriv, args.tol)
           THEN /\ pc' = "done"
                /\ obs' = Return(o1, "dir_deriv")
                /\ UNCHANGED <<x, grad_x, hess>>
           ELSE IF ~BroydenUpdates(args.impl)
           THEN /\ pc' = "loop"
                /\ x' = xn
                /\ grad_x' = grad_new
                /\ obs' = Callback(o2, xn)
                /\ UNCHANGED hess
           ELSE IF BroydenDivisorGuard(divisor, args.tol)
           THEN /\ pc' = "done"
                /\ x' = xn
                /\ grad_x' = grad_new
                /\ obs' = Return(o2, "divisor")
                /\ UNCHANGED hess
           ELSE IF divisor = Zero
           THEN /\ pc' = "ZeroDivisionError"
                /\ x' = xn
                /\ grad_x' = grad_new
                /\ obs' = [o2 EXCEPT !.exit = "zero_divisor"]
                /\ UNCHANGED hess
           ELSE /\ pc' = "loop"
                /\ x' = xn
                /\ grad_x' = grad_new
                /\ hess' = hess_new
                /\ obs' = Callback(o2, xn)
    /\ k' = k + 1
    /\ UNCHANGED <<args, ss, ys, pso, proj>>

(* range(maxiter) is exhausted: the solver returns *)
LoopExit ==
    /\ pc = "loop"
    /\ k = args.maxiter
    /\ pc' = "done"
    /\ obs' = Return(obs, "maxiter")
    /\ UNCHANGED <<args, x, grad_x, ss, ys, hess, k, pso, proj>>

Next ==
    \/ NewtonEntry
    \/ NewtonIter
    \/ BfgsEntry
    \/ BfgsIter
    \/ BroydenEntry
    \/ BroydenIter
    \/ LoopExit

Spec == Init /\ [][Next]_vars

-----------------------------------------------------------------------------
(* Properties of the solvers *)

Returned == pc = "done"
AtLoopHead == pc = "loop"

\* C1: in bfgs_method with maxcor an integer (read as a count, maxcor >= 0:
\* no list is shorter than empty), both lists have equal length, after an
\* iteration that appended a pair they hold at most maxcor pairs, and once
\* more than maxcor pairs were appended they hold exactly the maxcor most
\* recently appended pairs, in append order.
C1_HistoryBound ==
    (args.solver = "bfgs" /\ args.maxcor # None /\ args.maxcor[1] >= 0)
        => LET n == Len(obs.appended)
               mc == args.maxcor[1]
           IN  /\ Len(ss) = Len(ys)
               /\ n >= 1 => Len(ss) <= mc
               /\ n > mc =>
                    /\ Len(ss) = mc
                    /\ \A i \in 1 .. mc :
                          <<ss[i], ys[i]>> = obs.appended[n - mc + i]

\* C3 as claimed: with a callback supplied, whenever the solver is about to
\* start another iteration or has returned, every update of x so far was
\* followed by one callback(x) with the updated point.
C3_CallbackPerUpdate ==
    (args.callback /\ (AtLoopHead \/ Returned)) => obs.cb = obs.upd

\* the run ended inside an iteration after x was updated and before the
\* callback: the return of the curvature guard (bfgs) or of the divisor
\* guard (broyden), or the division by a zero divisor (broyden)
EndedAfterUpdate == obs.exit \in {"curvature", "divisor", "zero_divisor"}

\* C3 as amended: every update of x is followed by one callback(x) with the
\* updated point, except the last update of a run that ended in that same
\* iteration through the curvature guard or the divisor guard; newtons_method
\* has no such guard, and there the callbacks are exactly the updates.
C3_CallbackPerAcceptedUpdate ==
    args.callback =>
        /\ (pc # "start" /\ ~EndedAfterUpdate) => obs.cb = obs.upd
        /\ EndedAfterUpdate =>
              /\ args.solver # "newton"
              /\ Len(obs.upd) = Len(obs.cb) + 1
              /\ obs.cb = SubSeq(obs.upd, 1, Len(obs.cb))

C3_Witness ==
    /\ args.callback
    /\ Returned
    /\ obs.exit = "curvature"
    /\ Len(obs.cb) >= 1

\* C4: in an iteration whose directional derivative has |dd| <= tol the
\* solver returns in that iteration, without calling the line search and
\* without modifying x.
C4_StopAtTolerance ==
    (obs.dd # None /\ RLe(RAbs(obs.dd[1]), args.tol))
        => /\ Returned
           /\ obs.exit = "dir_deriv"
           /\ x = obs.xin
           /\ obs.nls = obs.nlsin

\* C6: a starting point outside the gradient's domain makes the call fail
\* with a TypeError at once: no gradient or derivative is evaluated, the line
\* search and the callback are never called, x is unchanged.
C6_TypeErrorAtEntry ==
    args.x.space # "X"
        => /\ pc \in {"start", "TypeError"}
           /\ obs = NoObs
           /\ x = args.x.v
           /\ k = 0
           /\ <<ss, ys>> = <<<<>>, <<>>>>

C6_Witness == pc = "TypeError" /\ args.solver = "bfgs" /\ args.maxiter > 0

-----------------------------------------------------------------------------
(* Properties of ProductSpaceOperator *)

Cells == (1 .. pso.shape[1]) \X (1 .. pso.shape[2])
Rows == 1 .. pso.shape[1]
Cols == 1 .. pso.shape[2]
Block(r, c) == pso.operators[<<r, c>>]
Present(r, c) == Block(r, c).kind # "zero"
Constructing == pso.pc \notin {"idle", "start"}
Constructed == pso.pc \in {"constructed", "applied", "called"}

\* every present entry is an Operator, and there is at least one
OnlyOperators == \A cell \in Cells : pso.operators[cell].kind # "object"
SomeOperator == \E cell \in Cells : pso.operators[cell].kind = "op"

\* column c holds operators with the domains a and b, a # b
ColumnConflict(c, a, b) ==
    /\ a # b
    /\ \E r1, r2 \in Rows :
          /\ Present(r1, c) /\ Block(r1, c).domain = a
          /\ Present(r2, c) /\ Block(r2, c).domain = b

\* row r holds operators with the ranges a and b, a # b
RowConflict(r, a, b) ==
    /\ a # b
    /\ \E c1, c2 \in Cols :
          /\ Present(r, c1) /\ Block(r, c1).range = a
          /\ Present(r, c2) /\ Block(r, c2).range = b

SomeColumnConflict == \E c \in Cols, a, b \in Spaces : ColumnConflict(c, a, b)
SomeRowConflict == \E r \in Rows, a, b \in Spaces : RowConflict(r, a, b)
EmptyColumn(c) == \A r \in Rows : ~Present(r, c)
EmptyRow(r) == \A c \in Cols : ~Present(r, c)

\* C2: with dom and/or ran supplied as ProductSpaces, a matrix with at least
\* one Operator, only Operators, consistent per row and per column (and no
\* empty row or column on a side that is left to be inferred) is
\* constructed, with the supplied dom and ran used as given.
C2_ExplicitSpacesUsed ==
    ( /\ Constructing
      /\ pso.dom.kind # "space" /\ pso.ran.kind # "space"
      /\ pso.dom.kind = "pspace" \/ pso.ran.kind = "pspace"
      /\ OnlyOperators /\ SomeOperator
      /\ ~SomeColumnConflict /\ ~SomeRowConflict
      /\ pso.dom.kind = "None" => \A c \in Cols : ~EmptyColumn(c)
      /\ pso.ran.kind = "None" => \A r \in Rows : ~EmptyRow(r) )
        => /\ pso.res.status = "ok"
           /\ pso.dom.kind = "pspace" => pso.res.self.domain = pso.dom.spaces
           /\ pso.ran.kind = "pspace" => pso.res.self.range = pso.ran.spaces

\* C5: after _apply(x, out) every output row that no stored triple names
\* holds the zero element, whatever x and whatever out held before.
C5_UnevaluatedRowsZero ==
    pso.pc = "applied"
        => /\ Len(pso.out) = Len(pso.res.self.range)
           /\ \A i \in 1 .. Len(pso.out) :
                 (\A n \in 1 .. Len(pso.res.self.ops) :
                     pso.res.self.ops[n].row # i) => pso.out[i] = 0

C5_Witness ==
    /\ pso.pc = "applied"
    /\ \E i \in 1 .. Len(pso.out) :
          /\ \A n \in 1 .. Len(pso.res.self.ops) : pso.res.self.ops[n].row # i
          /\ pso.out0[i] # 0
          /\ pso.out[i] = 0

\* C7: with dom and ran omitted, a matrix of operators with two different
\* domains in one column, or two different ranges in one row, is rejected
\* with a ValueError and no operator object; the error names a column and
\* two different domains found in it, or a row and two different ranges
\* found in it (a column when only columns conflict, a row when only rows).
C7_InconsistentRejected ==
    ( /\ Constructing
      /\ pso.dom.kind = "None" /\ pso.ran.kind = "None"
      /\ OnlyOperators
      /\ SomeColumnConflict \/ SomeRowConflict )
        => /\ pso.pc = "ValueError"
           /\ pso.res.status = "ValueError"
           /\ pso.res.self = NoObject
           /\ \/ /\ pso.res.what = "Column"
                 /\ ColumnConflict(pso.res.index, pso.res.got[1],
                                   pso.res.got[2])
              \/ /\ pso.res.what = "Row"
                 /\ RowConflict(pso.res.index, pso.res.got[1],
                                pso.res.got[2])
           /\ ~SomeRowConflict => pso.res.what = "Column"
           /\ ~SomeColumnConflict => pso.res.what = "Row"

C7_Witness ==
    /\ pso.pc = "ValueError"
    /\ pso.dom.kind = "None" /\ pso.ran.kind = "None"
    /\ pso.res.what = "Column"
    /\ pso.res.index = 2
    /\ ColumnConflict(2, pso.res.got[1], pso.res.got[2])

\* C8: with dom and ran omitted, a consistent matrix of operators with an
\* empty column or an empty row is rejected with a ValueError naming an
\* empty column or row; with no empty row or column it is constructed, with
\* the domain and range taken from the operators.
C8_EmptyRowOrColumn ==
    ( /\ Constructing
      /\ pso.dom.kind = "None" /\ pso.ran.kind = "None"
      /\ OnlyOperators
      /\ ~SomeColumnConflict /\ ~SomeRowConflict )
        => IF (\E c \in Cols : EmptyColumn(c)) \/ (\E r \in Rows : EmptyRow(r))
           THEN /\ pso.pc = "ValueError"
                /\ pso.res.status = "ValueError"
                /\ pso.res.self = NoObject
                /\ \/ pso.res.what = "ColEmpty" /\ EmptyColumn(pso.res.index)
                   \/ pso.res.what = "RowEmpty" /\ EmptyRow(pso.res.index)
           ELSE /\ pso.res.status = "ok"
                /\ Len(pso.res.self.domain) = pso.shape[2]
                /\ Len(pso.res.self.range) = pso.shape[1]
                /\ \A r \in Rows, c \in Cols :
                      Present(r, c) =>
                          /\ pso.res.self.domain[c] = Block(r, c).domain
                          /\ pso.res.self.range[r] = Block(r, c).range

C8_Witness ==
    /\ pso.pc = "ValueError"
    /\ pso.dom.kind = "None" /\ pso.ran.kind = "None"
    /\ OnlyOperators /\ SomeOperator
    /\ pso.res.what = "RowEmpty"
    /\ EmptyRow(pso.res.index)
    /\ \A c \in Cols : ~EmptyColumn(c)

\* C9: a constructed ProductSpaceOperator is linear exactly when every
\* present sub-operator is linear.
C9_LinearIffAllLinear ==
    Constructed
        => (pso.res.self.is_linear
                <=> \A cell \in Cells :
                        pso.operators[cell].kind = "op"
                            => pso.operators[cell].is_linear)

C9_Witness ==
    /\ Constructed
    /\ ~pso.res.self.is_linear
    /\ \E c1, c2 \in Cells :
          /\ pso.operators[c1].kind = "op" /\ pso.operators[c1].is_linear
          /\ pso.operators[c2].kind = "op" /\ ~pso.operators[c2].is_linear

-----------------------------------------------------------------------------
(* Properties of the projections *)

\* the components (counted from 1) that the index names
Selected ==
    LET n == Len(proj.space)
        it == proj.index.items
    IN  CASE proj.index.kind = "int" -> {((it[1] + n) % n) + 1}
          [] proj.index.kind = "slice" -> {q \in 1 .. n : it[1] < q /\ q <= it[2]}
          [] OTHER -> {((it[m] + n) % n) + 1 : m \in 1 .. Len(it)}

\* C10: projecting x onto the index and injecting the result back gives an
\* element of the space equal to x on the components of the index and zero
\* on the others, out of place and in place whatever the outputs held
\* before; x is not modified.
C10_ProjectThenInject ==
    proj.pc = "injected"
        => /\ Len(proj.z) = Len(proj.space)
           /\ \A q \in 1 .. Len(proj.space) :
                 proj.z[q] = IF q \in Selected THEN proj.x0[q] ELSE 0
           /\ proj.x = proj.x0

C10_Witness ==
    /\ proj.pc = "injected"
    /\ proj.y0 # <<>>
    /\ \E q \in 1 .. Len(proj.space) :
          q \notin Selected /\ proj.z0 # <<>> /\ proj.z0[q] # 0 /\ proj.z[q] = 0
    /\ \E q \in Selected : proj.x0[q] # 0 /\ proj.z[q] = proj.x0[q]

-----------------------------------------------------------------------------
(* In-place and out-of-place evaluation of ProductSpaceOperator *)

\* the sum of op[r, j](x[j]) over the present blocks of row r in the
\* columns 1 .. c
RECURSIVE RowSum(_, _)
RowSum(r, c) ==
    IF c = 0 THEN 0
    ELSE RowSum(r, c - 1)
         + (IF Present(r, c) THEN OpEval(Block(r, c), pso.x[c]) ELSE 0)

\* C11: whatever out held before, _apply(x, out) leaves out equal to the
\* result of _call(x): row i holds the sum of op[i, j](x[j]) over the
\* present blocks of row i (zero for a row with no block).
C11_ApplyEqualsCall ==
    pso.pc = "applied"
        => /\ pso.out = PsoCall(pso.res.self, pso.x)
           /\ \A i \in 1 .. Len(pso.out) :
                 pso.out[i] = IF i \in Rows THEN RowSum(i, pso.shape[2])
                              ELSE 0

C11_Witness ==
    /\ pso.pc = "applied"
    /\ \E r \in Rows :
          /\ \A c \in Cols : Present(r, c)
          /\ pso.shape[2] = 2
          /\ pso.out0[r] # 0
          /\ pso.out[r] = RowSum(r, 2)
          /\ pso.out[r] # pso.out0[r]

-----------------------------------------------------------------------------
(* broydens_method with an unrecognised impl *)

UnrecognisedImpl ==
    /\ args.solver = "broyden"
    /\ args.impl \notin {"first", "second"}
    /\ args.x.space = "X"

\* C12: with impl neither 'first' nor 'second' no error is raised and the
\* operator stays the identity: every search direction is the negative
\* gradient, and the solver stops only through the directional-derivative
\* test or when maxiter is exhausted.
C12_UnrecognisedImplNoUpdate ==
    UnrecognisedImpl
        => /\ pc \in {"start", "loop", "done"}
           /\ hess = One
           /\ obs.exit \in {"none", "dir_deriv", "maxiter"}
           /\ Returned <=> obs.exit \in {"dir_deriv", "maxiter"}
           /\ obs.dd # None =>
                 LET g == Gradient(args.f, obs.xin)
                 IN  /\ obs.dd[1] = Inner(RNeg(g), g)
                     /\ x # obs.xin => x = RAdd(obs.xin, RMul(args.step, RNeg(g)))
                     /\ obs.nls # obs.nlsin =>
                           x = RAdd(obs.xin, RMul(args.step, RNeg(g)))

C12_Witness ==
    /\ UnrecognisedImpl
    /\ Returned
    /\ obs.exit = "maxiter"
    /\ Len(obs.upd) >= 3
    /\ x # args.x.v
    /\ hess = One

-----------------------------------------------------------------------------
(* The curvature guard of bfgs_method *)

BfgsRun == args.solver = "bfgs" /\ args.x.space = "X"

Curvature(pair) == RAbs(Inner(pair[1], pair[2]))

\* The pairs the two lists hold, index by index, are the last Len(ss) pairs
\* that were appended.
RetainedAreAppended ==
    /\ Len(ss) = Len(ys)
    /\ Len(ss) <= Len(obs.appended)
    /\ \A i \in 1 .. Len(ss) :
          <<ss[i], ys[i]>> = obs.appended[Len(obs.appended) - Len(ss) + i]

\* C13: bfgs_method appends a pair only when its curvature product is at
\* least tol in absolute value; a product below tol ends the run in that
\* iteration with x updated and the lists untouched.  Every retained pair
\* therefore has |<y_i, s_i>| >= tol, and with tol > 0 the two-loop recursion
\* never divides by zero.
C13_CurvatureGuard ==
    BfgsRun
        => /\ RetainedAreAppended
           /\ \A i \in 1 .. Len(obs.appended) :
                 RLe(args.tol, Curvature(obs.appended[i]))
           /\ \A i \in 1 .. Len(ss) :
                 RLe(args.tol, RAbs(Inner(ys[i], ss[i])))
           /\ Len(obs.appended) <= Len(obs.upd)
           /\ Len(obs.upd) <= Len(obs.appended) + 1
           /\ Len(obs.appended) < Len(obs.upd) <=> obs.exit = "curvature"
           /\ obs.exit = "curvature" =>
                 /\ Returned
                 /\ x = obs.upd[Len(obs.upd)]
                 /\ RLt(RAbs(Inner(RSub(Gradient(args.f, x),
                                        Gradient(args.f, obs.xin)),
                                   RSub(x, obs.xin))),
                        args.tol)
           /\ RLt(Zero, args.tol) =>
                 /\ pc # "ZeroDivisionError"
                 /\ ~BfgsMultiply(ys, ss, grad_x, args.hessinv_estimate).err

C13_Witness ==
    /\ BfgsRun
    /\ RLt(Zero, args.tol)
    /\ obs.exit = "curvature"
    /\ Len(ss) >= 1
    /\ Len(obs.appended) >= 1
    /\ x # obs.xin
    /\ \E i \in 1 .. Len(ss) : RLt(args.tol, RAbs(Inner(ys[i], ss[i])))

====
